---- MODULE Spec2Model ----
(***************************************************************************)
(* RedisNameLookup (poc_redis_fastapi_chemblntd/chebi.py): the two Redis   *)
(* hashes "name-lookup" and "name-data", the "name-lock" lease taken by    *)
(* load(), flush(), and the two-step resolver __getitem__.                 *)
(*                                                                         *)
(* Strings are sequences of one-character strings, so that str.lower(),    *)
(* str.strip() and str.split() are computed character by character.        *)
(* Every Redis command is one atomic step; a pipeline is sent as one       *)
(* MULTI/EXEC transaction (redis-py's default for pipeline()).             *)
(***************************************************************************)
EXTENDS Integers, Sequences, FiniteSets, TLC

VARIABLES
    lookup,    \* Redis hash "name-lookup": lookup key -> packed identifier
    data,      \* Redis hash "name-data":   identifier -> packed record
    lock,      \* Redis key  "lock:name-lock" (holder, lease), or NoLock
    loader,    \* per load() call site: position and locals of load()
    reader,    \* per resolver: position and locals of __getitem__
    menu,      \* the loaders, datasets, queries and connection outcomes of
               \* the behaviour (fixed by the initial state)
    budget,    \* remaining number of load calls, flushes and crashes explored
    rows,      \* the rows POST /refresh saved in the database (Redis OM hashes)
    refresh    \* the POST /refresh request: position and locals of
               \* dynamic_refresh, and the remaining number of requests

vars == <<lookup, data, lock, loader, reader, menu, budget, rows, refresh>>

----------------------------------------------------------------------------
(* Bounds of the exploration.                                              *)

MaxLoadCalls == 2
ResolveLoadCalls == 1
BulkLoadCalls == 2
MaxFlush == 1
MaxCrash == 1
TickStep == 15
MaxRefresh == 2
MaxRows == 2

Loaders == {"L1", "L2"}
Readers == {"R1"}

\* the loads of one process, one call after the other
OneLoader == {"L1"}

----------------------------------------------------------------------------
(* Strings.                                                                *)

UpperAlpha ==
    <<"A","B","C","D","E","F","G","H","I","J","K","L","M",
      "N","O","P","Q","R","S","T","U","V","W","X","Y","Z">>

LowerAlpha ==
    <<"a","b","c","d","e","f","g","h","i","j","k","l","m",
      "n","o","p","q","r","s","t","u","v","w","x","y","z">>

Whitespace == {" ", "\t", "\n"}

\* str.lower() on one character
LowerChar(c) ==
    IF \E i \in 1..26 : UpperAlpha[i] = c
    THEN LowerAlpha[CHOOSE i \in 1..26 : UpperAlpha[i] = c]
    ELSE c

\* str.lower(): every character, nothing removed
Lower(s) == [i \in 1..Len(s) |-> LowerChar(s[i])]

RECURSIVE SkipSpace(_)
SkipSpace(s) ==
    IF s = <<>> THEN <<>>
    ELSE IF Head(s) \in Whitespace THEN SkipSpace(Tail(s))
    ELSE s

RECURSIVE TakeWord(_)
TakeWord(s) ==
    IF s = <<>> THEN <<>>
    ELSE IF Head(s) \in Whitespace THEN <<>>
    ELSE <<Head(s)>> \o TakeWord(Tail(s))

\* the outcome of an expression: a value, or an exception
Ok(v) == [ok |-> TRUE, v |-> v]
Raised == [ok |-> FALSE, v |-> <<>>]

\* a string without a token gives the empty token instead of IndexError
_sanitized_smiles_str_noRaise(smi) == Ok(TakeWord(SkipSpace(smi)))

\* smi.strip().split()[0]: the first whitespace-delimited token; indexing the
\* empty list of an empty or all-whitespace string raises IndexError
_sanitized_smiles_str(smi) ==
    LET rest == SkipSpace(smi)
    IN  IF rest = <<>> THEN Raised ELSE Ok(TakeWord(rest))

----------------------------------------------------------------------------
(* The Canonicalizer (RDKit), on the structure strings the model uses.     *)

S_CCO == <<"C","C","O">>
S_OCC == <<"O","C","C">>
S_benzene == <<"c","1","c","c","c","c","c","1">>
S_kekule == <<"C","1","=","C","C","=","C","C","=","C","1">>
S_butene == <<"C","C","=","C","C">>
S_butene_iso == <<"C","/","C","=","C","/","C">>

\* Chem.MolToSmiles(Chem.MolFromSmiles(tok), isomericSmiles=False):
\* MolFromSmiles returns None for a string it cannot parse and MolToSmiles
\* raises on None
CanonicalSmiles(tok) ==
    CASE tok = S_CCO        -> Ok(S_CCO)
      [] tok = S_OCC        -> Ok(S_CCO)
      [] tok = S_benzene    -> Ok(S_benzene)
      [] tok = S_kekule     -> Ok(S_benzene)
      [] tok = S_butene     -> Ok(S_butene)
      [] tok = S_butene_iso -> Ok(S_butene)
      [] OTHER              -> Raised

\* ast.literal_eval(mol.GetProp("_smilesAtomOutputOrder")): the position each
\* atom of the input takes in the canonical string
AtomOutputOrder(tok) ==
    CASE tok = S_CCO        -> <<0, 1, 2>>
      [] tok = S_OCC        -> <<2, 1, 0>>
      [] tok = S_benzene    -> <<0, 1, 2, 3, 4, 5>>
      [] tok = S_kekule     -> <<0, 1, 2, 3, 4, 5>>
      [] tok = S_butene     -> <<0, 1, 2, 3>>
      [] tok = S_butene_iso -> <<0, 1, 2, 3>>
      [] OTHER              -> <<>>

----------------------------------------------------------------------------
(* msgpack and Redis hashes.                                               *)

\* msgpack.dumps(v)
Pack(v) == [mp |-> v]

\* what hget returns for a missing field
None == [none |-> TRUE]

\* msgpack.loads(b): raises on None
Unpack(b) == IF b = None THEN Raised ELSE Ok(b.mp)

\* HGET hash field
HGet(hash, field) == IF field \in DOMAIN hash THEN hash[field] ELSE None

EmptyHash == <<>>

----------------------------------------------------------------------------
(* The datasets download_data() may return: D["data"] and D["lookup"] as   *)
(* Python dicts, i.e. sequences of <<key, value>> in iteration order.      *)

N_ethanol == <<"e","t","h","a","n","o","l">>
N_benzene == <<"b","e","n","z","e","n","e">>
N_benzol == <<"b","e","n","z","o","l">>
N_butene == <<"b","u","t","-","2","-","e","n","e">>

DigitChars == <<"0","1","2","3","4","5","6","7","8","9">>

RECURSIVE Digits(_)
Digits(i) ==
    IF i < 10 THEN <<DigitChars[i + 1]>>
    ELSE Digits(i \div 10) \o <<DigitChars[(i % 10) + 1]>>

\* the i-th synonym of the bulk part of a dataset, e.g. "syn-17"
SynKey(i) == <<"s","y","n","-">> \o Digits(i)

Record(name, smiles) == [name |-> name, smiles |-> smiles]

\* the curated entries of each release of the archive; release "b" drops
\* ethanol, moves "benzol" to a new identifier and adds butene; any other
\* release has no curated entries
CuratedData(ver) ==
    IF ver = "a"
    THEN << <<1, Record(N_ethanol, S_CCO)>>, <<2, Record(N_benzene, S_benzene)>> >>
    ELSE IF ver = "b"
    THEN << <<2, Record(N_benzene, S_benzene)>>, <<3, Record(N_butene, S_butene)>>,
            <<4, Record(N_benzol, S_benzene)>> >>
    ELSE <<>>

CuratedLookup(ver) ==
    IF ver = "a"
    THEN << <<S_CCO, 1>>, <<N_ethanol, 1>>, <<S_benzene, 2>>, <<N_benzene, 2>>,
            <<N_benzol, 2>> >>
    ELSE IF ver = "b"
    THEN << <<S_benzene, 2>>, <<N_benzene, 2>>, <<N_benzol, 4>>,
            <<S_butene, 3>>, <<N_butene, 3>> >>
    ELSE <<>>

BulkId(i) == 100 + i

\* a dataset: the curated entries of a release followed by nd bulk records
\* and nl bulk synonyms, each synonym naming a record of the dataset
MakeDataset(ds) ==
    [data   |-> CuratedData(ds.ver) \o
                [i \in 1..ds.nd |-> <<BulkId(i), Record(SynKey(i), SynKey(i))>>],
     lookup |-> CuratedLookup(ds.ver) \o
                [i \in 1..ds.nl |->
                    <<SynKey(i), IF ds.nd = 0 THEN 2 ELSE BulkId(((i - 1) % ds.nd) + 1)>>]]

Dataset(ver, nd, nl) == [ver |-> ver, nd |-> nd, nl |-> nl]

NoDataset == Dataset("-", 0, 0)

\* release "a" as curated, and release "b" with 65 records, which take two
\* round trips
SmallDatasets == {Dataset("a", 0, 0), Dataset("b", 62, 0)}

\* release "a" with 1001 synonyms, one more than the populated threshold
BigDatasets == {Dataset("a", 0, 996)}

\* bulk releases around the size of a round trip: empty dicts, dicts below
\* and at the first round trip (63 entries), one entry above it, and at the
\* second round trip (127 entries)
SizeDatasets ==
    {Dataset("c", 0, 0), Dataset("c", 62, 63), Dataset("c", 64, 127)}

\* releases around the populated threshold: 1001 synonyms over two records,
\* and 1000 synonyms over 1001 records
ThresholdDatasets == BigDatasets \cup {Dataset("a", 999, 995)}

\* everything chebi_url serves in some behaviour
Archive ==
    [ds \in SmallDatasets \cup BigDatasets \cup SizeDatasets
             \cup ThresholdDatasets \cup {NoDataset} |-> MakeDataset(ds)]

\* download_data(), line 98: the decoded archive
D(ds) == Archive[ds]

\* a dict as the hash its hsets build: msgpack.dumps of the value under each
\* key (the keys of a dict are distinct)
AsHash(dict) ==
    [k \in {dict[i][1] : i \in 1..Len(dict)} |->
        Pack(dict[CHOOSE i \in 1..Len(dict) : dict[i][1] = k][2])]

\* load, line 134: what hset(f"name-{term}", k, msgpack.dumps(v)) stores for
\* each key of each dict of the archive
Packed ==
    [ds \in DOMAIN Archive |->
        [term \in {"data", "lookup"} |-> AsHash(Archive[ds][term])]]

----------------------------------------------------------------------------
(* State.                                                                  *)

NoLock == [holder |-> "-", ttl |-> 0, since |-> 0]

\* the terms in the other order
Terms_lookupFirst == <<"lookup", "data">>

\* load, line 127: the terms, in the order they are written
Terms == <<"data", "lookup">>

\* Lock(self.redis, "name-lock", expire=30, auto_renewal=True): the lease, and
\* the period of the renewal thread (two thirds of the lease)
Expire == 30
RenewInterval == (Expire * 2) \div 3

\* what load returns or raises: False, the counts per term, or NotAcquired
\* out of Lock.__exit__
NoReturn == [kind |-> "-", data |-> 0, lookup |-> 0]
ReturnFalse == [kind |-> "False", data |-> 0, lookup |-> 0]
NotAcquired == [kind |-> "NotAcquired", data |-> 0, lookup |-> 0]

\* what __getitem__ returns or raises
NoRecord == [name |-> <<>>, smiles |-> <<>>]
NoResult ==
    [kind |-> "-", rec |-> NoRecord, chebi |-> 0, hasReordering |-> FALSE,
     reordering |-> <<>>, q |-> <<>>]

IdleLoader ==
    [pc |-> "idle", force |-> FALSE, ds |-> NoDataset, term |-> 1, idx |-> 0,
     n |-> 1, lens |-> <<<<>>, <<>>>>, ret |-> NoReturn,
     flushed |-> FALSE]

IdleReader ==
    [pc |-> "idle", q |-> <<>>, tok |-> <<>>, name |-> <<>>, i |-> 0,
     path |-> "-", ret |-> NoResult, dirty |-> FALSE, nameConn |-> FALSE,
     sreads |-> 0, nreads |-> 0, cause |-> "-"]

\* 1000 entries count as populated
loaded_from1000(hash) == Cardinality(DOMAIN hash) >= 1000

\* the threshold off by one
loaded_above1001(hash) == Cardinality(DOMAIN hash) > 1001

\* loaded(): self.redis.hlen("name-lookup") > 1000
loaded(hash) == Cardinality(DOMAIN hash) > 1000

\* every resolver that is inside a call, or has not yet returned, has seen
\* the store change under it
Dirty(rd) == [r \in Readers |-> [rd[r] EXCEPT !.dirty = (rd[r].pc # "idle")]]

----------------------------------------------------------------------------
(* load(force).                                                            *)

\* load, lines 117-120: the populated check, taken without the lock; force
\* is not read again after it
LoadCall(l, force) ==
    /\ loader[l].pc = "idle"
    /\ budget.loads > 0
    /\ budget' = [budget EXCEPT !.loads = @ - 1]
    /\ loader' = [loader EXCEPT ![l] =
          IF ~force /\ loaded(lookup)
          THEN [IdleLoader EXCEPT !.pc = "done", !.force = force, !.ret = ReturnFalse]
          ELSE [IdleLoader EXCEPT !.pc = "lock", !.force = force]]
    /\ UNCHANGED <<lookup, data, lock, reader, menu, rows, refresh>>

\* load, lines 122-123: Lock.__enter__ (SET lock:name-lock NX EX 30, retried
\* until it succeeds), then download_data()
LockEnter(l) ==
    /\ loader[l].pc = "lock"
    /\ lock = NoLock
    /\ lock' = [holder |-> l, ttl |-> Expire, since |-> 0]
    /\ \E ds \in menu.datasets :
          loader' = [loader EXCEPT ![l] =
              [IdleLoader EXCEPT !.pc = "fill", !.ds = ds]]
    /\ UNCHANGED <<lookup, data, reader, menu, budget, rows, refresh>>

\* load, lines 132-138: the for loop from entry idx on, with counter n: one
\* hset is queued per entry and n counts up, until n reaches a multiple of 64
\* (line 136, not final) or the dict is exhausted (final, executed at line
\* 139); pipe is the queued hsets, the packed value for each of their keys
PipeFill(dict, packed, idx, n) ==
    LET cuts == {c \in 1..(Len(dict) - idx) : ((n + c) % 64) = 0}
        final == cuts = {}
        took == IF final THEN Len(dict) - idx
                ELSE CHOOSE c \in cuts : \A c2 \in cuts : c <= c2
    IN  [idx |-> idx + took, n |-> n + took, final |-> final, took |-> took,
         pipe |-> [k \in {dict[idx + j][1] : j \in 1..took} |-> packed[k]]]

\* the transaction replaces the hash instead of adding to it
Execute_replace(hash, pipe) == pipe

\* pipe.execute(): the queued hsets run as one transaction, each setting its
\* field and leaving the other fields of the hash alone
Execute(hash, pipe) == pipe @@ hash

\* sum(l)
RECURSIVE Sum(_)
Sum(sq) == IF sq = <<>> THEN 0 ELSE Head(sq) + Sum(Tail(sq))

\* the counts are the numbers of round trips
Results_roundTrips(lens) ==
    [kind |-> "counts", data |-> Len(lens[1]), lookup |-> Len(lens[2])]

\* load, line 141
Results(lens) ==
    [kind |-> "counts", data |-> Sum(lens[1]), lookup |-> Sum(lens[2])]

\* load, lines 127-139: one round trip of the pipeline, line 137 inside the
\* loop or line 139 after it
PipeExecute(l) ==
    LET ld == loader[l]
        f == PipeFill(D(ld.ds)[Terms[ld.term]], Packed[ld.ds][Terms[ld.term]],
                      ld.idx, ld.n)
        lens2 == [ld.lens EXCEPT ![ld.term] = Append(@, f.took)]
    IN  /\ ld.pc = "fill"
        /\ IF Terms[ld.term] = "data"
           THEN data' = Execute(data, f.pipe) /\ UNCHANGED lookup
           ELSE lookup' = Execute(lookup, f.pipe) /\ UNCHANGED data
        /\ loader' = [loader EXCEPT ![l] =
              IF ~f.final
              THEN [ld EXCEPT !.idx = f.idx, !.n = f.n, !.lens = lens2]
              ELSE IF ld.term < Len(Terms)
              THEN [ld EXCEPT !.term = @ + 1, !.idx = 0, !.n = 1, !.lens = lens2]
              ELSE [ld EXCEPT !.pc = "exit", !.idx = f.idx, !.n = f.n, !.lens = lens2,
                              !.ret = Results(lens2)]]
        /\ reader' = IF f.took = 0 THEN reader ELSE Dirty(reader)
        /\ UNCHANGED <<lock, menu, budget, rows, refresh>>

\* load, line 122: Lock.__exit__, which releases the lock if the key still
\* holds this loader's id and raises NotAcquired otherwise
LockExit(l) ==
    /\ loader[l].pc = "exit"
    /\ IF lock.holder = l
       THEN /\ lock' = NoLock
            /\ loader' = [loader EXCEPT ![l].pc = "done"]
       ELSE /\ lock' = lock
            /\ loader' = [loader EXCEPT ![l].pc = "done", ![l].ret = NotAcquired]
    /\ UNCHANGED <<lookup, data, reader, menu, budget, rows, refresh>>

\* the caller takes the result; the call site is free for the next call
LoadReturn(l) ==
    /\ loader[l].pc = "done"
    /\ loader' = [loader EXCEPT ![l] = IdleLoader]
    /\ UNCHANGED <<lookup, data, lock, reader, menu, budget, rows, refresh>>

\* the process running load dies inside the with block: nothing is released
\* and its renewal thread dies with it
Crash(l) ==
    /\ loader[l].pc \in {"fill", "exit"}
    /\ budget.crashes > 0
    /\ budget' = [budget EXCEPT !.crashes = @ - 1]
    /\ loader' = [loader EXCEPT ![l].pc = "crashed"]
    /\ UNCHANGED <<lookup, data, lock, reader, menu, rows, refresh>>

\* the renewal thread outlives its process
Live_crashed(l) == loader[l].pc \in {"fill", "exit", "crashed"}

\* a loader whose renewal thread is running
Live(l) == loader[l].pc \in {"fill", "exit"}

\* auto_renewal=True: the renewal thread of the holder extends the lease to
\* expire again
Renew(l) ==
    /\ Live(l)
    /\ lock.holder = l
    /\ lock.since + TickStep > RenewInterval
    /\ lock' = [lock EXCEPT !.ttl = Expire, !.since = 0]
    /\ UNCHANGED <<lookup, data, loader, reader, menu, budget, rows, refresh>>

\* time passes: the lease of the key runs down and Redis deletes the key when
\* it reaches zero; a running renewal thread fires before its period is over
Tick ==
    /\ lock # NoLock
    /\ ~(Live(lock.holder) /\ lock.since + TickStep > RenewInterval)
    /\ lock' = IF lock.ttl - TickStep <= 0 THEN NoLock
               ELSE [lock EXCEPT !.ttl = @ - TickStep, !.since = @ + TickStep]
    /\ UNCHANGED <<lookup, data, loader, reader, menu, budget, rows, refresh>>

\* only the lookup hash is deleted
flush_keepData ==
    /\ budget.flushes > 0
    /\ budget' = [budget EXCEPT !.flushes = @ - 1]
    /\ lookup' = EmptyHash
    /\ data' = data
    /\ lock' = NoLock
    /\ loader' = [l \in Loaders |->
          IF loader[l].pc \in {"fill", "exit"}
          THEN [loader[l] EXCEPT !.flushed = TRUE] ELSE loader[l]]
    /\ reader' = Dirty(reader)
    /\ rows' = {}
    /\ UNCHANGED <<menu, refresh>>

\* flush, lines 145-147: FLUSHDB deletes every key of the database, the two
\* hashes and the key of the lock alike
flush ==
    /\ budget.flushes > 0
    /\ budget' = [budget EXCEPT !.flushes = @ - 1]
    /\ lookup' = EmptyHash
    /\ data' = EmptyHash
    /\ lock' = NoLock
    /\ loader' = [l \in Loaders |->
          IF loader[l].pc \in {"fill", "exit"}
          THEN [loader[l] EXCEPT !.flushed = TRUE] ELSE loader[l]]
    /\ reader' = Dirty(reader)
    /\ rows' = {}
    /\ UNCHANGED <<menu, refresh>>

----------------------------------------------------------------------------
(* __getitem__(q).                                                         *)

\* the key is lowercased on both paths
LookupStep_lower(hash, name, up) ==
    IF ~up THEN Raised ELSE Unpack(HGet(hash, Lower(name)))

\* _name_lookup, lines 40-41: i = msgpack.loads(self.redis.hget("name-lookup",
\* name)); up is whether the connection to Redis works
LookupStep(hash, name, up) ==
    IF ~up THEN Raised ELSE Unpack(HGet(hash, name))

\* _name_lookup, lines 42-43: n = msgpack.loads(self.redis.hget("name-data",
\* i)); n["chebi"] = i
DataStep(hash, i, up) ==
    IF ~up THEN Raised
    ELSE LET n == Unpack(HGet(hash, i))
         IN  IF ~n.ok THEN Raised
             ELSE Ok([NoResult EXCEPT !.kind = "ok", !.rec = n.v, !.chebi = i])

\* _name_lookup, lines 36-49, against one state of the two hashes
_name_lookup(lk, dt, name) ==
    LET i == LookupStep(lk, name, TRUE)
    IN  IF ~i.ok THEN Raised ELSE DataStep(dt, i.v, TRUE)

\* the KeyError carries the lowercased query
KeyError_lower(q) == [NoResult EXCEPT !.kind = "KeyError", !.q = Lower(q)]

\* __getitem__, line 84
KeyError(q) == [NoResult EXCEPT !.kind = "KeyError", !.q = q]

\* the name path looks the query up as given, without lowercasing it
Resolve_verbatim(r, q) ==
    LET tok == _sanitized_smiles_str(q)
        smiles == IF ~tok.ok THEN Raised ELSE CanonicalSmiles(tok.v)
    IN  /\ reader[r].pc = "idle"
        /\ reader' = [reader EXCEPT ![r] =
              IF ~smiles.ok
              THEN [IdleReader EXCEPT !.pc = "lookup", !.q = q, !.tok = tok.v,
                                      !.path = "name", !.name = q,
                                      !.cause = IF ~tok.ok THEN "token" ELSE "canon"]
              ELSE [IdleReader EXCEPT !.pc = "lookup", !.q = q, !.tok = tok.v,
                                      !.path = "smiles", !.name = smiles.v]]
        /\ UNCHANGED <<lookup, data, lock, loader, menu, budget, rows, refresh>>

\* the name path is tried first
Resolve_nameFirst(r, q) ==
    /\ reader[r].pc = "idle"
    /\ reader' = [reader EXCEPT ![r] =
          [IdleReader EXCEPT !.pc = "lookup", !.q = q, !.path = "name",
                             !.name = Lower(q)]]
    /\ UNCHANGED <<lookup, data, lock, loader, menu, budget, rows, refresh>>

\* a token RDKit rejects raises KeyError at once
Resolve_raise(r, q) ==
    LET tok == _sanitized_smiles_str(q)
        smiles == IF ~tok.ok THEN Raised ELSE CanonicalSmiles(tok.v)
    IN  /\ reader[r].pc = "idle"
        /\ reader' = [reader EXCEPT ![r] =
              IF ~smiles.ok
              THEN [IdleReader EXCEPT !.pc = "done", !.q = q, !.tok = tok.v,
                                      !.path = "name", !.name = Lower(q),
                                      !.ret = [NoResult EXCEPT !.kind = "KeyError", !.q = q],
                                      !.cause = IF ~tok.ok THEN "token" ELSE "canon"]
              ELSE [IdleReader EXCEPT !.pc = "lookup", !.q = q, !.tok = tok.v,
                                      !.path = "smiles", !.name = smiles.v]]
        /\ UNCHANGED <<lookup, data, lock, loader, menu, budget, rows, refresh>>

\* __getitem__, lines 66-68 and 77-78: the structure path starts with the
\* canonical form of the first token, and falls to the name path with the
\* lowercased query when RDKit cannot produce one
Resolve(r, q) ==
    LET tok == _sanitized_smiles_str(q)
        smiles == IF ~tok.ok THEN Raised ELSE CanonicalSmiles(tok.v)
    IN  /\ reader[r].pc = "idle"
        /\ reader' = [reader EXCEPT ![r] =
              IF ~smiles.ok
              THEN [IdleReader EXCEPT !.pc = "lookup", !.q = q, !.tok = tok.v,
                                      !.path = "name", !.name = Lower(q),
                                      !.cause = IF ~tok.ok THEN "token" ELSE "canon"]
              ELSE [IdleReader EXCEPT !.pc = "lookup", !.q = q, !.tok = tok.v,
                                      !.path = "smiles", !.name = smiles.v]]
        /\ UNCHANGED <<lookup, data, lock, loader, menu, budget, rows, refresh>>

\* __getitem__, lines 73-78 and 80-84: an exception on the structure path
\* starts the name path, an exception on the name path raises KeyError
Except(rd, cause, up) ==
    IF rd.path = "smiles"
    THEN [rd EXCEPT !.pc = "lookup", !.path = "name", !.name = Lower(rd.q),
                    !.i = 0, !.cause = cause]
    ELSE [rd EXCEPT !.pc = "done", !.ret = KeyError(rd.q), !.nameConn = ~up]

Count(rd) ==
    IF rd.path = "smiles" THEN [rd EXCEPT !.sreads = @ + 1]
    ELSE [rd EXCEPT !.nreads = @ + 1]

\* the read waits until no load holds the lock
HGetLookup_locked(r) ==
    /\ reader[r].pc = "lookup"
    /\ lock = NoLock
    /\ \E up \in menu.conn :
          LET rd == Count(reader[r])
              i == LookupStep(lookup, rd.name, up)
          IN  reader' = [reader EXCEPT ![r] =
                  IF ~i.ok
                  THEN Except(rd, IF up THEN "lookup" ELSE "conn", up)
                  ELSE [rd EXCEPT !.pc = "data", !.i = i.v]]
    /\ UNCHANGED <<lookup, data, lock, loader, menu, budget, rows, refresh>>

\* _name_lookup, lines 40-41, called from line 69 or line 78
HGetLookup(r) ==
    /\ reader[r].pc = "lookup"
    /\ \E up \in menu.conn :
          LET rd == Count(reader[r])
              i == LookupStep(lookup, rd.name, up)
          IN  reader' = [reader EXCEPT ![r] =
                  IF ~i.ok
                  THEN Except(rd, IF up THEN "lookup" ELSE "conn", up)
                  ELSE [rd EXCEPT !.pc = "data", !.i = i.v]]
    /\ UNCHANGED <<lookup, data, lock, loader, menu, budget, rows, refresh>>

\* _name_lookup, lines 42-46, then __getitem__ lines 70-72 or line 79
HGetData(r) ==
    /\ reader[r].pc = "data"
    /\ \E up \in menu.conn :
          LET rd == Count(reader[r])
              n == DataStep(data, rd.i, up)
          IN  reader' = [reader EXCEPT ![r] =
                  IF ~n.ok
                  THEN Except(rd, IF up THEN "data" ELSE "conn", up)
                  ELSE [rd EXCEPT !.pc = "done",
                          !.ret = IF rd.path = "smiles"
                                  THEN [n.v EXCEPT !.hasReordering = TRUE,
                                                   !.reordering = AtomOutputOrder(rd.tok)]
                                  ELSE n.v]]
    /\ UNCHANGED <<lookup, data, lock, loader, menu, budget, rows, refresh>>

\* the caller takes the result or the KeyError
ResolveReturn(r) ==
    /\ reader[r].pc = "done"
    /\ reader' = [reader EXCEPT ![r] = IdleReader]
    /\ UNCHANGED <<lookup, data, lock, loader, menu, budget, rows, refresh>>

----------------------------------------------------------------------------
(* POST /refresh: dynamic_refresh(body), main.py.                          *)

\* main.py, line 60
ACCEPTED_FILE_TYPES ==
    << <<"c","s","v">>, <<"t","s","v">>, <<"x","l","s","x">>, <<"x","l","s">> >>

\* str.endswith
EndsWith(s, e) ==
    Len(s) >= Len(e) /\ SubSeq(s, Len(s) - Len(e) + 1, Len(s)) = e

\* line 520: ending = body.url.split(".")[-1]
Ending(url) ==
    LET dots == {i \in 1..Len(url) : url[i] = "."}
    IN  IF dots = {} THEN url
        ELSE SubSeq(url, (CHOOSE i \in dots : \A j \in dots : j <= i) + 1, Len(url))

U_csv == <<"d",".","c","s","v">>
U_tsv == <<"d",".","t","s","v">>
U_xls == <<"d",".","x","l","s">>
U_txt == <<"d",".","t","x","t">>
U_xcsv == <<"d",".","x","c","s","v">>

\* a request body and the table behind its url: fil is whether the table
\* has a column that the attribute access of line 548 finds
RefreshBody(url, fil, nrows) == [url |-> url, fil |-> fil, nrows |-> nrows]

NoBody == RefreshBody(<<>>, FALSE, 0)

RefreshBodies ==
    {RefreshBody(U_csv, FALSE, MaxRows), RefreshBody(U_csv, TRUE, MaxRows),
     RefreshBody(U_tsv, FALSE, 0), RefreshBody(U_tsv, FALSE, MaxRows),
     RefreshBody(U_xls, FALSE, 1), RefreshBody(U_txt, FALSE, MaxRows),
     RefreshBody(U_xcsv, FALSE, MaxRows)}

\* the handler between requests; instance is CUSTOM_CLASSES[k]["instance"]
\* of line 56, which outlives a request; passed are the steps the request
\* has come through, stage is the step it failed in, flushed is whether its
\* flush_redis() returned True, left is the number of requests still to come
IdleRefresh ==
    [pc |-> "idle", body |-> NoBody, line |-> 0, errors |-> 0, status |-> 0,
     passed |-> {}, stage |-> "-", flushed |-> FALSE, instance |-> FALSE,
     left |-> 0]

\* a JSONResponse of status 500 returned, or an exception that leaves the
\* handler and that FastAPI answers with status 500
Fail(rf, stage) == [rf EXCEPT !.pc = "done", !.status = 500, !.stage = stage]

Pass(rf, step, pc) == [rf EXCEPT !.pc = pc, !.passed = @ \cup {step}]

\* line 501: a request arrives
dynamic_refresh(body) ==
    /\ refresh.pc = "idle"
    /\ refresh.left > 0
    /\ refresh' = [IdleRefresh EXCEPT !.pc = "ping", !.body = body,
                                      !.instance = refresh.instance,
                                      !.left = refresh.left - 1]
    /\ UNCHANGED <<lookup, data, lock, loader, reader, menu, budget, rows>>

\* lines 506-509 and ping_redis, lines 80-100: r.ping() answers or raises
\* ConnectionError
ping_redis ==
    /\ refresh.pc = "ping"
    /\ \E up \in BOOLEAN :
          refresh' = IF up THEN Pass(refresh, "ping", "type")
                     ELSE Fail(refresh, "ping")
    /\ UNCHANGED <<lookup, data, lock, loader, reader, menu, budget, rows>>

\* lines 512-518: the file-type check; building the message of the 404
\* response calls join on a list, which raises AttributeError
RefreshCheckUrl ==
    /\ refresh.pc = "type"
    /\ refresh' =
          IF \E i \in 1..Len(ACCEPTED_FILE_TYPES) :
                EndsWith(refresh.body.url, ACCEPTED_FILE_TYPES[i])
          THEN Pass(refresh, "type", "download")
          ELSE Fail(refresh, "type")
    /\ UNCHANGED <<lookup, data, lock, loader, reader, menu, budget, rows>>

\* lines 523-542: urlretrieve into a temporary file
RefreshDownload ==
    /\ refresh.pc = "download"
    /\ \E out \in {"ok", "AssertionError", "Exception"} :
          refresh' = IF out = "ok" THEN Pass(refresh, "download", "read")
                     ELSE Fail(refresh, "download")
    /\ UNCHANGED <<lookup, data, lock, loader, reader, menu, budget, rows>>

\* lines 544-562: the table is read by its ending; the csv branch then
\* evaluates df.fil, an ending that is no file type leaves df unbound, and
\* the parser may reject the file
RefreshRead ==
    /\ refresh.pc = "read"
    /\ \E parsed \in BOOLEAN :
          LET ending == Ending(refresh.body.url)
              ok == IF ending = ACCEPTED_FILE_TYPES[1]
                    THEN parsed /\ refresh.body.fil
                    ELSE IF \E i \in 2..4 : ending = ACCEPTED_FILE_TYPES[i]
                    THEN parsed
                    ELSE FALSE
          IN  refresh' = IF ok THEN Pass(refresh, "read", "classes")
                         ELSE Fail(refresh, "read")
    /\ UNCHANGED <<lookup, data, lock, loader, reader, menu, budget, rows>>

\* the flush follows although the classes were not created
RefreshClasses_noReturn ==
    /\ refresh.pc = "classes"
    /\ \E ok \in BOOLEAN :
          refresh' = IF ok
                     THEN [Pass(refresh, "classes", "flush") EXCEPT !.instance = TRUE]
                     ELSE [refresh EXCEPT !.pc = "flush"]
    /\ UNCHANGED <<lookup, data, lock, loader, reader, menu, budget, rows>>

\* lines 566-611: the dynamic classes for the schema of the body
RefreshClasses ==
    /\ refresh.pc = "classes"
    /\ \E ok \in BOOLEAN :
          refresh' = IF ok
                     THEN [Pass(refresh, "classes", "flush") EXCEPT !.instance = TRUE]
                     ELSE Fail(refresh, "classes")
    /\ UNCHANGED <<lookup, data, lock, loader, reader, menu, budget, rows>>

\* lines 614-619 and flush_redis, lines 103-120: r.flushdb() deletes every
\* key of the database, or raises and flush_redis returns False
flush_redis ==
    /\ refresh.pc = "flush"
    /\ \E ok \in BOOLEAN :
          IF ok
          THEN /\ refresh' = [Pass(refresh, "flush", "save") EXCEPT !.flushed = TRUE]
               /\ lookup' = EmptyHash
               /\ data' = EmptyHash
               /\ lock' = NoLock
               /\ rows' = {}
               /\ loader' = [l \in Loaders |->
                     IF loader[l].pc \in {"fill", "exit"}
                     THEN [loader[l] EXCEPT !.flushed = TRUE] ELSE loader[l]]
               /\ reader' = Dirty(reader)
          ELSE /\ refresh' = Fail(refresh, "flush")
               /\ UNCHANGED <<lookup, data, lock, rows, loader, reader>>
    /\ UNCHANGED <<menu, budget>>

\* lines 625-632: one row of the table; x.save() writes it or raises, and a
\* row that raises is counted and skipped
RefreshSave ==
    /\ refresh.pc = "save"
    /\ refresh.line < refresh.body.nrows
    /\ \E ok \in BOOLEAN :
          IF ok
          THEN /\ rows' = rows \cup {refresh.line + 1}
               /\ refresh' = [refresh EXCEPT !.line = @ + 1]
          ELSE /\ rows' = rows
               /\ refresh' = [refresh EXCEPT !.line = @ + 1, !.errors = @ + 1]
    /\ UNCHANGED <<lookup, data, lock, loader, reader, menu, budget>>

\* lines 643-662: after the last row, Migrator().run() and the response
RefreshMigrate ==
    /\ refresh.pc = "save"
    /\ refresh.line = refresh.body.nrows
    /\ \E ok \in BOOLEAN :
          refresh' = IF ok
                     THEN [Pass(refresh, "migrate", "done") EXCEPT !.status = 200]
                     ELSE Fail(refresh, "migrate")
    /\ UNCHANGED <<lookup, data, lock, loader, reader, menu, budget, rows>>

\* the response is sent
RefreshReturn ==
    /\ refresh.pc = "done"
    /\ refresh' = [IdleRefresh EXCEPT !.instance = refresh.instance,
                                      !.left = refresh.left]
    /\ UNCHANGED <<lookup, data, lock, loader, reader, menu, budget, rows>>

----------------------------------------------------------------------------
(* The queries and datasets explored, and the specifications.              *)

Q_Ethanol == <<"E","t","h","a","n","o","l">>
Q_OCC_note == S_OCC \o <<" ","|","x","|">>
Q_padded == <<" ">> \o N_ethanol
Q_blank == <<" "," "," ">>
Q_unknown == <<"x","y","z">>

Queries ==
    {S_CCO, S_OCC, Q_OCC_note, S_kekule, N_ethanol, Q_Ethanol, N_benzol,
     Q_padded, Q_blank, <<>>, Q_unknown, SynKey(1)}


InitWith(loaders, datasets, queries, conn, loads, flushes, crashes) ==
    /\ lookup = EmptyHash
    /\ data = EmptyHash
    /\ lock = NoLock
    /\ loader = [l \in Loaders |-> IdleLoader]
    /\ reader = [r \in Readers |-> IdleReader]
    /\ menu = [loaders |-> loaders, datasets |-> datasets, queries |-> queries,
               conn |-> conn]
    /\ budget = [loads |-> loads, flushes |-> flushes, crashes |-> crashes]
    /\ rows = {}
    /\ refresh = [IdleRefresh EXCEPT !.left = 0]

\* concurrent loads, flush, crash and lease, with one resolver query
Init ==
    InitWith(Loaders, SmallDatasets, {S_OCC}, {TRUE}, MaxLoadCalls, MaxFlush,
             MaxCrash)

\* every query and a failing connection, around the loads of one process
InitResolve ==
    InitWith(OneLoader, SmallDatasets, Queries, BOOLEAN, ResolveLoadCalls, MaxFlush,
             MaxCrash)

\* concurrent loads of the two releases and flush, without a resolver
InitLoad ==
    InitWith(Loaders, SmallDatasets, {}, {TRUE}, MaxLoadCalls, MaxFlush, 0)

\* concurrent loads of a dataset that populates the store
InitBulk == InitWith(Loaders, BigDatasets, {}, {TRUE}, BulkLoadCalls, 0, 0)

\* concurrent loads, crashes and the lease, without flush and resolver
InitLease ==
    InitWith(Loaders, SmallDatasets, {}, {TRUE}, MaxLoadCalls, 0, MaxCrash)

\* the loads of one process on a dataset that populates the store, and flush
InitFlush ==
    InitWith(OneLoader, BigDatasets, {}, {TRUE}, BulkLoadCalls, MaxFlush, 0)

\* concurrent loads of the releases around the populated threshold
InitThreshold ==
    InitWith(Loaders, ThresholdDatasets, {}, {TRUE}, BulkLoadCalls, 0, 0)

\* concurrent loads of the releases around the size of a round trip
InitSizes == InitWith(Loaders, SizeDatasets, {}, {TRUE}, BulkLoadCalls, 0, 0)

\* the loads of one process on the empty store, with every query and without
\* flush and crash
InitSingle ==
    InitWith(OneLoader, SmallDatasets \cup SizeDatasets, Queries, {TRUE},
             ResolveLoadCalls, 0, 0)

\* refresh requests next to the loads of release "a" by one process
InitRefresh ==
    /\ lookup = EmptyHash
    /\ data = EmptyHash
    /\ lock = NoLock
    /\ loader = [l \in Loaders |-> IdleLoader]
    /\ reader = [r \in Readers |-> IdleReader]
    /\ menu = [loaders |-> OneLoader, datasets |-> {Dataset("a", 0, 0)},
               queries |-> {}, conn |-> {TRUE}]
    /\ budget = [loads |-> ResolveLoadCalls, flushes |-> 0, crashes |-> 0]
    /\ rows = {}
    /\ refresh = [IdleRefresh EXCEPT !.left = MaxRefresh]

Next ==
    \/ \E l \in menu.loaders, force \in BOOLEAN : LoadCall(l, force)
    \/ \E l \in menu.loaders : LockEnter(l)
    \/ \E l \in menu.loaders : PipeExecute(l)
    \/ \E l \in menu.loaders : LockExit(l)
    \/ \E l \in menu.loaders : LoadReturn(l)
    \/ \E l \in menu.loaders : Crash(l)
    \/ \E l \in menu.loaders : Renew(l)
    \/ Tick
    \/ flush
    \/ \E r \in Readers, q \in menu.queries : Resolve(r, q)
    \/ \E r \in Readers : HGetLookup(r)
    \/ \E r \in Readers : HGetData(r)
    \/ \E r \in Readers : ResolveReturn(r)

Spec == Init /\ [][Next]_vars

SpecResolve == InitResolve /\ [][Next]_vars

\* load and flush alone
NextLoad ==
    \/ \E l \in menu.loaders, force \in BOOLEAN : LoadCall(l, force)
    \/ \E l \in menu.loaders : LockEnter(l)
    \/ \E l \in menu.loaders : PipeExecute(l)
    \/ \E l \in menu.loaders : LockExit(l)
    \/ \E l \in menu.loaders : LoadReturn(l)
    \/ flush

SpecLoad == InitLoad /\ [][NextLoad]_vars

SpecFlush == InitFlush /\ [][NextLoad]_vars

\* load alone
NextBulk ==
    \/ \E l \in menu.loaders, force \in BOOLEAN : LoadCall(l, force)
    \/ \E l \in menu.loaders : LockEnter(l)
    \/ \E l \in menu.loaders : PipeExecute(l)
    \/ \E l \in menu.loaders : LockExit(l)
    \/ \E l \in menu.loaders : LoadReturn(l)

SpecBulk == InitBulk /\ [][NextBulk]_vars

SpecSizes == InitSizes /\ [][NextBulk]_vars

SpecThreshold == InitThreshold /\ [][NextBulk]_vars

\* load and resolve, without flush
NextSingle ==
    \/ \E l \in menu.loaders, force \in BOOLEAN : LoadCall(l, force)
    \/ \E l \in menu.loaders : LockEnter(l)
    \/ \E l \in menu.loaders : PipeExecute(l)
    \/ \E l \in menu.loaders : LockExit(l)
    \/ \E l \in menu.loaders : LoadReturn(l)
    \/ \E r \in Readers, q \in menu.queries : Resolve(r, q)
    \/ \E r \in Readers : HGetLookup(r)
    \/ \E r \in Readers : HGetData(r)
    \/ \E r \in Readers : ResolveReturn(r)

SpecSingle == InitSingle /\ [][NextSingle]_vars

\* load and POST /refresh
NextRefresh ==
    \/ \E l \in menu.loaders, force \in BOOLEAN : LoadCall(l, force)
    \/ \E l \in menu.loaders : LockEnter(l)
    \/ \E l \in menu.loaders : PipeExecute(l)
    \/ \E l \in menu.loaders : LockExit(l)
    \/ \E l \in menu.loaders : LoadReturn(l)
    \/ \E body \in RefreshBodies : dynamic_refresh(body)
    \/ ping_redis
    \/ RefreshCheckUrl
    \/ RefreshDownload
    \/ RefreshRead
    \/ RefreshClasses
    \/ flush_redis
    \/ RefreshSave
    \/ RefreshMigrate
    \/ RefreshReturn

SpecRefresh == InitRefresh /\ [][NextRefresh]_vars

\* load, crash and the lease
NextLease ==
    \/ \E l \in menu.loaders, force \in BOOLEAN : LoadCall(l, force)
    \/ \E l \in menu.loaders : LockEnter(l)
    \/ \E l \in menu.loaders : PipeExecute(l)
    \/ \E l \in menu.loaders : LockExit(l)
    \/ \E l \in menu.loaders : LoadReturn(l)
    \/ \E l \in menu.loaders : Crash(l)
    \/ \E l \in menu.loaders : Renew(l)
    \/ Tick

\* time passes, a renewal thread that is due runs, a process inside load
\* goes on until it crashes, and a blocked Lock.__enter__ retries its SET NX
\* (after a BLPOP of at most the lease) until it succeeds
FairLease ==
    /\ WF_vars(Tick)
    /\ \A l \in Loaders :
          /\ WF_vars(Renew(l))
          /\ WF_vars(LockEnter(l))
          /\ WF_vars(PipeExecute(l))
          /\ WF_vars(LockExit(l))

SpecLease == InitLease /\ [][NextLease]_vars /\ FairLease

----------------------------------------------------------------------------
(* Properties.                                                             *)

\* a load call between acquiring and releasing "name-lock"
InProgress(l) == loader[l].pc \in {"fill", "exit"}

\* the first j entries of a dict are fields of the hash
HasKeys(hash, dict, j) == \A i \in 1..j : dict[i][1] \in DOMAIN hash

\* the first j entries of a dict are in the hash with the dict's values
Holds(hash, dict, j) ==
    \A i \in 1..j : /\ dict[i][1] \in DOMAIN hash
                    /\ hash[dict[i][1]] = Pack(dict[i][2])

\* a resolver is between its first and its last read of the store
Reading(r) == reader[r].pc \in {"lookup", "data"}

\* a connection failure happened during the call
ConnFailed(rd) == rd.cause = "conn" \/ rd.nameConn

C2_MutualExclusion ==
    Cardinality({l \in Loaders : InProgress(l)}) <= 1

\* C3: when a query is a lookup key whose identifier has a record, and the
\* store is reachable and unchanged during the call, resolve returns that
\* record with chebi equal to the identifier stored under the key.
C3_ResolveKey ==
    \A r \in Readers :
        LET rd == reader[r]
        IN  ( /\ rd.pc = "done" /\ ~rd.dirty /\ ~ConnFailed(rd)
              /\ rd.q \in DOMAIN lookup
              /\ lookup[rd.q].mp \in DOMAIN data )
            => /\ rd.ret.kind = "ok"
               /\ rd.ret.chebi = lookup[rd.q].mp
               /\ rd.ret.rec = data[lookup[rd.q].mp].mp

\* a canonical structure key was resolved through the structure path
C3_Witness ==
    \E r \in Readers :
        /\ reader[r].pc = "done" /\ ~reader[r].dirty
        /\ reader[r].q = S_CCO /\ S_CCO \in DOMAIN lookup
        /\ reader[r].ret.kind = "ok" /\ reader[r].ret.chebi = 1
        /\ reader[r].ret.hasReordering

\* C4: the structure path comes first, the name path reads the store only
\* after the structure path has failed, and a result of the structure path
\* is returned without any read on the name path.
C4_FixedOrder ==
    \A r \in Readers :
        LET rd == reader[r]
        IN  /\ (rd.pc # "idle" /\ rd.cause = "-") => rd.path = "smiles"
            /\ rd.path = "name" => rd.cause # "-"
            /\ rd.nreads > 0 => (rd.cause # "-" /\ rd.path = "name")
            /\ rd.cause \in {"token", "canon"} => rd.sreads = 0
            /\ (rd.pc = "done" /\ rd.ret.hasReordering) =>
                  /\ rd.cause = "-" /\ rd.sreads = 2 /\ rd.nreads = 0

\* the structure path returned a record and the name path never read
C4_Witness ==
    \E r \in Readers :
        /\ reader[r].pc = "done" /\ reader[r].ret.kind = "ok"
        /\ reader[r].ret.hasReordering
        /\ reader[r].sreads = 2 /\ reader[r].nreads = 0

\* the name path against one state of the store: the record, or KeyError
NamePathOutcome(q) ==
    LET n == _name_lookup(lookup, data, Lower(q))
    IN  IF n.ok THEN n.v
        ELSE [NoResult EXCEPT !.kind = "KeyError", !.q = q]

\* C5: when the structure path fails because the Canonicalizer rejects the
\* token, the canonical string is not a lookup key or its identifier has no
\* record, resolve ends with exactly the outcome of the name path on the
\* lowercased query (store reachable and unchanged during the call).
C5_FallThrough ==
    \A r \in Readers :
        LET rd == reader[r]
        IN  ( /\ rd.pc = "done" /\ ~rd.dirty /\ ~rd.nameConn
              /\ rd.cause \in {"token", "canon", "lookup", "data"} )
            => rd.ret = NamePathOutcome(rd.q)

\* the Canonicalizer rejected "Ethanol" and the name path returned ethanol
C5_Witness ==
    \E r \in Readers :
        /\ reader[r].pc = "done" /\ ~reader[r].dirty
        /\ reader[r].q = Q_Ethanol /\ reader[r].cause = "canon"
        /\ reader[r].ret.kind = "ok" /\ reader[r].ret.chebi = 1
        /\ ~reader[r].ret.hasReordering

\* the structure path finds a record in this state of the store
StructureYields(q) ==
    LET tok == _sanitized_smiles_str(q)
        smiles == IF tok.ok THEN CanonicalSmiles(tok.v) ELSE Raised
    IN  smiles.ok /\ _name_lookup(lookup, data, smiles.v).ok

\* C6: resolve ends with a record or with KeyError and nothing else; a
\* KeyError carries the query as given; and when neither path finds a
\* record in an unchanged store, a dangling identifier included, resolve
\* raises KeyError.
C6_NotFound ==
    \A r \in Readers :
        LET rd == reader[r]
        IN  rd.pc = "done" =>
              /\ rd.ret.kind \in {"ok", "KeyError"}
              /\ rd.ret.kind = "KeyError" => rd.ret.q = rd.q
              /\ ( /\ ~rd.dirty
                   /\ ~StructureYields(rd.q)
                   /\ ~_name_lookup(lookup, data, Lower(rd.q)).ok )
                 => rd.ret.kind = "KeyError"

\* a lookup key whose identifier has no record ended in KeyError
C6_Witness ==
    \E r \in Readers :
        /\ reader[r].pc = "done" /\ ~reader[r].dirty
        /\ reader[r].q = S_CCO /\ S_CCO \in DOMAIN lookup
        /\ reader[r].cause = "data"
        /\ reader[r].ret.kind = "KeyError" /\ reader[r].ret.q = S_CCO

\* C7: a connection failure during resolve is raised as StoreUnavailable and
\* never as KeyError.
C7_TransportSurfaced ==
    \A r \in Readers :
        LET rd == reader[r]
        IN  rd.pc = "done" =>
              /\ ConnFailed(rd) => rd.ret.kind = "StoreUnavailable"
              /\ rd.ret.kind = "KeyError" => ~ConnFailed(rd)

\* C8: outside a load in progress every identifier in the lookup hash is a
\* field of the data hash (every dataset of the model satisfies it).
C8_ReferentialIntegrity ==
    (\A l \in Loaders : ~InProgress(l)) =>
        \A k \in DOMAIN lookup : lookup[k].mp \in DOMAIN data

\* a load completes without a flush during it and returns its counts
Completes(l) ==
    /\ loader[l].pc = "exit" /\ loader'[l].pc = "done"
    /\ loader'[l].ret.kind = "counts"
    /\ ~loader[l].flushed

\* no flush has run so far
NeverFlushed == budget.flushes = MaxFlush

C10_SkipWhenPopulated ==
    [][\A l \in Loaders :
          (loader[l].pc = "idle" /\ loader'[l].pc # "idle") =>
              IF ~loader'[l].force /\ Cardinality(DOMAIN lookup) > 1000
              THEN /\ loader'[l].pc = "done"
                   /\ loader'[l].ret.kind = "False"
                   /\ loader'[l].ds = NoDataset
                   /\ loader'[l].lens = <<<<>>, <<>>>>
                   /\ lookup' = lookup /\ data' = data /\ lock' = lock
              ELSE loader'[l].pc = "lock"]_vars

\* a load(force=False) has returned False on a store of 1001 lookup entries
C10_Witness ==
    \E l \in Loaders :
        /\ loader[l].pc = "done" /\ loader[l].ret.kind = "False"
        /\ ~loader[l].force
        /\ Cardinality(DOMAIN lookup) = 1001

C12_Threshold ==
    [][\A l \in Loaders :
          (loader[l].pc = "idle" /\ loader'[l].pc # "idle" /\ ~loader'[l].force) =>
              /\ (loader'[l].pc = "done" /\ loader'[l].ret.kind = "False")
                    <=> Cardinality(DOMAIN lookup) >= 1001
              /\ loader'[l].pc = "lock" <=> Cardinality(DOMAIN lookup) <= 1000]_vars

\* a load(force=False) has gone on to the lock on a store of exactly 1000
\* lookup fields and 1001 data fields
C12_Witness ==
    \E l \in Loaders :
        /\ loader[l].pc = "lock" /\ ~loader[l].force
        /\ Cardinality(DOMAIN lookup) = 1000
        /\ Cardinality(DOMAIN data) = 1001

\* one of the two paths of __getitem__ finds a record for q in the store
\* made of the hashes lk and dt
Resolvable(lk, dt, q) ==
    LET tok == _sanitized_smiles_str(q)
        smiles == IF tok.ok THEN CanonicalSmiles(tok.v) ELSE Raised
    IN  \/ smiles.ok /\ _name_lookup(lk, dt, smiles.v).ok
        \/ _name_lookup(lk, dt, Lower(q)).ok

\* C13: a flush that runs while no load is in progress leaves both hashes
\* empty and the store unpopulated, with no query resolvable; and a
\* load(force=False) called on the empty store goes on to the lock and loads.
C13_FlushEmpties ==
    [][/\ (budget'.flushes < budget.flushes /\ \A l \in Loaders : ~InProgress(l)) =>
              /\ lookup' = EmptyHash /\ data' = EmptyHash
              /\ ~loaded(lookup')
              /\ \A q \in Queries : ~Resolvable(lookup', data', q)
       /\ \A l \in Loaders :
              ( /\ loader[l].pc = "idle" /\ loader'[l].pc # "idle"
                /\ lookup = EmptyHash ) => loader'[l].pc = "lock"]_vars

\* a load has written 1001 lookup fields and released the lock, and a flush
\* after it has emptied the store
C13_Witness ==
    \E l \in Loaders :
        /\ loader[l].pc = "done" /\ ~loader[l].flushed
        /\ loader[l].ret.kind = "counts" /\ loader[l].ret.lookup = 1001
        /\ budget.flushes < MaxFlush
        /\ lookup = EmptyHash /\ data = EmptyHash

\* C14: when a loader has crashed holding the lock, the key of the lock
\* eventually expires; and every load call waiting for the lock eventually
\* acquires it and returns its counts, unless it crashes itself.
C14_CrashedLoaderExpires ==
    \A l \in Loaders :
        /\ (loader[l].pc = "crashed" /\ lock.holder = l) ~> (lock.holder # l)
        /\ (loader[l].pc = "lock") ~>
              \/ loader[l].pc = "done" /\ loader[l].ret.kind = "counts"
              \/ loader[l].pc = "crashed"

\* a load holds the lock and has written its dataset while the other loader
\* is dead: it crashed inside its with block and never released the lock
C14_Witness ==
    \E l, l2 \in Loaders :
        /\ loader[l].pc = "crashed"
        /\ loader[l2].pc = "exit" /\ loader[l2].ret.kind = "counts"
        /\ lock.holder = l2

\* a step of resolver r: it moves on or reads the store
ResolverStep(r) ==
    \/ reader'[r].pc # reader[r].pc
    \/ reader'[r].sreads # reader[r].sreads
    \/ reader'[r].nreads # reader[r].nreads

\* C15: the next step of a resolve is enabled in every state, whoever
\* holds the lock, and a call takes at most two reads on each path; and no
\* step of a resolve changes the two hashes, the lock or a load.
C15_PureRead ==
    /\ [](\A r \in Readers :
            /\ reader[r].pc = "idle" =>
                  \A q \in menu.queries : ENABLED Resolve(r, q)
            /\ reader[r].pc = "lookup" => ENABLED HGetLookup(r)
            /\ reader[r].pc = "data" => ENABLED HGetData(r)
            /\ reader[r].pc = "done" => ENABLED ResolveReturn(r)
            /\ reader[r].sreads <= 2 /\ reader[r].nreads <= 2)
    /\ [][\A r \in Readers :
            ResolverStep(r) =>
                /\ lookup' = lookup /\ data' = data
                /\ lock' = lock /\ loader' = loader]_vars

\* a resolve is between its two reads of the structure path while a load
\* in progress holds the lock
C15_Witness ==
    \E r \in Readers, l \in Loaders :
        /\ reader[r].pc = "data" /\ reader[r].sreads = 1
        /\ InProgress(l) /\ lock.holder = l

\* C16: when the structure path has failed and the store is unchanged and
\* reachable on the name path, resolve finds a record exactly when the whole
\* query, lowercased and neither trimmed nor split, is a lookup key whose
\* identifier has a record; it returns that record with chebi set and
\* without a reordering.
C16_NameWholeQuery ==
    \A r \in Readers :
        LET rd == reader[r]
            key == Lower(rd.q)
        IN  (rd.pc = "done" /\ ~rd.dirty /\ ~rd.nameConn /\ rd.cause # "-") =>
              IF key \in DOMAIN lookup /\ lookup[key].mp \in DOMAIN data
              THEN /\ rd.ret.kind = "ok"
                   /\ rd.ret.chebi = lookup[key].mp
                   /\ rd.ret.rec = data[lookup[key].mp].mp
                   /\ ~rd.ret.hasReordering
                   /\ rd.nreads = 2
              ELSE rd.ret.kind = "KeyError"

\* "Ethanol" was found under the key "ethanol" on the name path
C16_Witness ==
    \E r \in Readers :
        /\ reader[r].pc = "done" /\ ~reader[r].dirty
        /\ reader[r].q = Q_Ethanol /\ reader[r].name = N_ethanol
        /\ reader[r].path = "name" /\ reader[r].nreads = 2
        /\ reader[r].ret.kind = "ok"
        /\ reader[r].ret.rec = Record(N_ethanol, S_CCO)

\* C17: for the empty query and for a query of whitespace only, the
\* structure path fails on the extraction of the token, before the
\* Canonicalizer and without a read of the store, and the name path follows;
\* when the lowercased query is not a lookup key, resolve raises KeyError
\* with the query as given.
C17_BlankQuery ==
    \A r \in Readers :
        LET rd == reader[r]
        IN  (rd.pc # "idle" /\ rd.q \in {<<>>, Q_blank}) =>
              /\ rd.cause = "token" /\ rd.path = "name" /\ rd.sreads = 0
              /\ (rd.pc = "done" /\ ~rd.dirty /\ Lower(rd.q) \notin DOMAIN lookup) =>
                    rd.ret = KeyError(rd.q)

\* a query of three spaces ended in KeyError on a store that holds release
\* "a"
C17_Witness ==
    \E r \in Readers :
        /\ reader[r].pc = "done" /\ ~reader[r].dirty
        /\ reader[r].q = Q_blank /\ reader[r].nreads = 1
        /\ reader[r].ret.kind = "KeyError" /\ reader[r].ret.q = Q_blank
        /\ N_ethanol \in DOMAIN lookup

\* C18: for each map, every pipeline round trip of a load except the last
\* carries exactly 64 entries, and the last carries between 0 and 63.
C18_BatchesOf64 ==
    \A l \in Loaders :
        \A t \in 1..2 :
            LET trips == loader[l].lens[t]
            IN  (loader[l].pc = "exit" \/ loader[l].term > t) =>
                  /\ \A i \in 1..(Len(trips) - 1) : trips[i] = 64
                  /\ trips # <<>> => trips[Len(trips)] \in 0..63

\* C19: a load(force=False) that gets the lock after the store has become
\* populated returns false without downloading or writing: no unforced load
\* goes from the lock to the download on a populated store, and it leaves
\* the lock with the return value False.
C19_NoRedundantReload ==
    [][\A l \in Loaders :
          (loader[l].pc = "lock" /\ ~loader[l].force /\ loaded(lookup)
             /\ loader'[l] # loader[l]) =>
            /\ loader'[l].pc = "done"
            /\ loader'[l].ret = ReturnFalse
            /\ lookup' = lookup /\ data' = data]_vars

\* C20: a flush executed while a load holds the lock neither releases nor
\* deletes the lock: the holder and the lease are the same after the flush.
C20_FlushKeepsLock ==
    [][(budget'.flushes < budget.flushes /\ lock.holder \in Loaders) =>
          lock' = lock]_vars

\* C21: a load writes the whole data dict before any lookup entry, so with
\* the loads of one process on an initially empty store and no flush, every
\* identifier in the lookup hash is a field of the data hash in every state,
\* and a resolver that read an identifier finds its record.
C21_DataBeforeLookup ==
    /\ \A l \in Loaders :
          (InProgress(l) /\ Sum(loader[l].lens[2]) > 0) =>
              /\ Sum(loader[l].lens[1]) = Len(D(loader[l].ds).data)
              /\ Holds(data, D(loader[l].ds).data, Len(D(loader[l].ds).data))
    /\ \A k \in DOMAIN lookup : lookup[k].mp \in DOMAIN data
    /\ \A r \in Readers :
          /\ reader[r].pc = "data" => reader[r].i \in DOMAIN data
          /\ reader[r].cause # "data"

\* a resolver has read the identifier of "syn-1" and is about to read its
\* record while the load has executed the first of its lookup round trips
C21_Witness ==
    \E l \in Loaders, r \in Readers :
        /\ InProgress(l) /\ loader[l].term = 2
        /\ Sum(loader[l].lens[2]) > 0
        /\ Sum(loader[l].lens[2]) < Len(D(loader[l].ds).lookup)
        /\ reader[r].pc = "data" /\ reader[r].name = SynKey(1)
        /\ reader[r].i \in DOMAIN data

\* the keys of the Redis database
Store == <<lookup, data, lock, rows>>

\* C22: in POST /refresh the store is flushed only after the ping, the
\* file-type check, the download and the class creation have succeeded; a
\* request that fails in an earlier step, or whose flush fails, leaves the
\* store as it was, and a row is saved only after the flush succeeded.
C22_FlushAfterChecks ==
    [][refresh' # refresh =>
          /\ refresh.pc \notin {"flush", "save"} => Store' = Store
          /\ refresh.pc = "flush" =>
                {"ping", "type", "download", "classes"} \subseteq refresh.passed
          /\ refresh'.pc = "done" /\ refresh'.stage \in
                   {"ping", "type", "download", "read", "classes", "flush"} =>
                /\ Store' = Store
                /\ ~refresh'.flushed
                /\ refresh'.status = 500
          /\ rows' # rows /\ rows' # {} =>
                /\ refresh.pc = "save" /\ refresh.flushed
                /\ "flush" \in refresh.passed]_vars

\* a request has failed in the class creation while the store holds the
\* rows of an earlier request and the names of release "a"
C22_Witness ==
    /\ refresh.pc = "done" /\ refresh.stage = "classes"
    /\ refresh.status = 500 /\ ~refresh.flushed
    /\ rows = 1..MaxRows
    /\ N_ethanol \in DOMAIN lookup

====
